---- MODULE Spec2Model ----
(***************************************************************************)
(* Model of the level-4 allocator of src/src/malloc_4.cpp.                 *)
(*                                                                         *)
(* Memory is modelled at the granularity of block headers: mem maps the    *)
(* address of every header whose bytes are intact to its six fields.       *)
(* Pointers are byte addresses, nullptr is 0.  A header that was absorbed  *)
(* by a merge stays in mem (the bytes are still there) until something     *)
(* overwrites it: a new header written over it, the caller writing into    *)
(* the payload that now covers it, or the region being unmapped.           *)
(* Following a pointer to an address that holds no intact header, writing  *)
(* outside the bin array, a traversal that never ends and a memmove to     *)
(* nullptr are undefined behaviour: the model records it in fault and      *)
(* stops there.                                                            *)
(***************************************************************************)
EXTENDS Integers, FiniteSets, Sequences, TLC

\* ---------------------------------------------------------------- constants
nullptr == 0
ADDRESS_SIZE == 8
MAX_MALLOC_4_SIZE == 100000000
SBRK_FAIL == -1
BIN_SIZE == 128
KB == 1024
MIN_KB_BLOCK == 128 * KB
\* sizeof(malloc_metadata_t) on an LP64 build: 8 + 1 (+7 padding) + 4 * 8
MetaSize == 48
\* the remainder a split must leave, the literal of IS_LARGE_ENOUGH
MinSplit == 128

\* ------------------------------------------------------------------- size_t
\* A size_t of scalloc is held as its bytes, least significant first, so that
\* "num * size" can wrap at 2^64 as the unsigned multiplication does.
SizeTBytes == 8
ByteBase == 256

RECURSIVE BytePow(_)
BytePow(i) == IF i = 0 THEN 1 ELSE ByteBase * BytePow(i - 1)

\* the size_t whose value is n, for 0 <= n < 2^31
SizeT(n) == [i \in 0 .. (SizeTBytes - 1) |-> IF i < 4 THEN (n \div BytePow(i)) % ByteBase ELSE 0]

\* the size_t 2^(8 * i) * hi + n: a value with byte i set to hi
SizeTHigh(i, hi, n) == [SizeT(n) EXCEPT ![i] = hi]

\* sum of the byte products a[i] * b[k - i] that land in byte k
RECURSIVE Column(_, _, _, _)
Column(a, b, k, i) ==
    IF i < 0 THEN 0
    ELSE (IF i < SizeTBytes /\ k - i < SizeTBytes THEN a[i] * b[k - i] ELSE 0)
         + Column(a, b, k, i - 1)

\* byte k of the product before reduction, with the carry of the bytes below
RECURSIVE Carried(_, _, _)
Carried(a, b, k) ==
    Column(a, b, k, k) + (IF k = 0 THEN 0 ELSE Carried(a, b, k - 1) \div ByteBase)

\* num * size in size_t arithmetic: the low SizeTBytes bytes of the product
SizeTMul(a, b) == [k \in 0 .. (SizeTBytes - 1) |-> Carried(a, b, k) % ByteBase]

\* w is below 2^31
SizeTSmall(w) == w[3] < 128 /\ \A i \in 4 .. (SizeTBytes - 1) : w[i] = 0

\* the value of a size_t below 2^31
SizeTValue(w) == w[0] + ByteBase * (w[1] + ByteBase * (w[2] + ByteBase * w[3]))

\* ------------------------------------------------------------------- bounds
\* the program break when the process starts
InitBrk == 4096
\* the OS refuses to move the break further than this many bytes above InitBrk
MaxHeap == 262144
\* addresses the anonymous mapping primitive may return: MmapBase + k * MmapStride
MmapBase == 1048576
MmapStride == 262144
MaxMaps == 2
\* the caller makes at most this many public calls (Spec, SpecWide)
MaxOps == 6
MaxOpsWide == 4
MaxOpsData == 6
MaxOpsZero == 6
MaxOpsBin == 5

MmapSlots == {MmapBase + k * MmapStride : k \in 0 .. (MaxMaps - 1)}

\* request sizes the caller uses: small ones in Spec; the rejected sizes, an
\* unaligned size, a size that outgrows it and the large threshold in SpecWide
Sizes == {40, 100, 400}
SizesWide == {0, 41, 400, MIN_KB_BLOCK, MAX_MALLOC_4_SIZE + 1}
\* in SpecData the caller allocates blocks of SizesData bytes, stores into
\* them and reallocates them to GrowSizes bytes
SizesData == {40, MIN_KB_BLOCK}
GrowSizes == {72, 100, 136, MIN_KB_BLOCK + ADDRESS_SIZE}
\* SpecZero allocates SizesZero bytes with smalloc; <<num, size>> of its
\* scalloc calls: 40 and 104 bytes, zero elements, a product over the limit,
\* and a product of 2^64 + 40
\* the scalloc call of SpecWide: 21 bytes
CallocArgsWide == {<<SizeT(3), SizeT(7)>>}
SizesZero == {40}
CallocArgs == {<<SizeT(5), SizeT(8)>>, <<SizeT(13), SizeT(8)>>, <<SizeT(0), SizeT(8)>>,
               <<SizeT(100000), SizeT(100000)>>, <<SizeTHigh(7, 32, 5), SizeT(8)>>}

\* Level 2 (malloc_2.cpp): number of public calls and the requests made
MaxOps_2 == 5
Sizes_2 == {0, 16, 40, 100}
CallocArgs_2 == {<<SizeT(2), SizeT(8)>>, <<SizeT(5), SizeT(8)>>}

\* SpecBin starts with seven blocks in use: four of BinSizes bytes each,
\* kept apart by three of SeparatorSize bytes
BinSizes == {40, 100, 2000}
SeparatorSize == 40

VARIABLES
    mem,                 \* header address -> header fields
    metadata_head,       \* head of the brk chain
    mmap_metadata_head,  \* head of the mapped chain
    free_block_bin,      \* 0 .. BIN_SIZE-1 -> head of the bucket
    brk,                 \* current program break
    mapped,              \* bases of the anonymous mappings that exist
    fault,               \* "none", or the undefined behaviour that was hit
    data,                \* bytes that hold caller data or copies of header bytes
    live,                \* allocations the caller holds: [ptr, size]
    last,                \* the last public call and its result
    nops                 \* number of public calls made so far

heapvars == <<mem, metadata_head, mmap_metadata_head, free_block_bin, brk, mapped, data>>
vars == <<mem, metadata_head, mmap_metadata_head, free_block_bin, brk, mapped, data, fault, live,
          last, nops>>

\* ------------------------------------------------------------------ helpers
\* a size that is left as the caller wrote it
GET_SIZE_AS_GIVEN(address) ==
    address

GET_SIZE_WITH_ALIGNMENT(address) ==
    address + ((ADDRESS_SIZE - (address % ADDRESS_SIZE)) % ADDRESS_SIZE)

MMIN(A, B) == IF A < B THEN A ELSE B

GET_METADATA_FROM_PTR(alloc_ptr) == alloc_ptr - MetaSize

GET_PTR_FROM_METADATA(metadata) == metadata + MetaSize

GET_BIN_ENTRY(size) == size \div KB

IS_LARGE_ENOUGH(entire_block_size, needed_size) ==
    entire_block_size >= needed_size + MetaSize + MinSplit

\* The allocator's state as one value, threaded through the statements; os
\* records whether the call reached an OS primitive and how that ended.
Heap == [mem |-> mem, head |-> metadata_head, mhead |-> mmap_metadata_head,
         bins |-> free_block_bin, brk |-> brk, mapped |-> mapped, fault |-> fault,
         data |-> data, os |-> "none"]

Ok(h) == h.fault = "none"

Fault(h, what) == IF Ok(h) THEN [h EXCEPT !.fault = what] ELSE h

Has(h, a) == a \in DOMAIN h.mem

\* the longest walk a finite acyclic list of intact headers can take
Fuel(h) == Cardinality(DOMAIN h.mem) + 1

\* ptr->field = v
SetField(h, ptr, field, v) ==
    IF ~Ok(h) THEN h
    ELSE IF ~Has(h, ptr) THEN Fault(h, "wild_write")
    ELSE [h EXCEPT !.mem[ptr][field] = v]

\* free_block_bin[i] = v
SetBin(h, i, v) ==
    IF ~Ok(h) THEN h
    ELSE IF i \notin 0 .. (BIN_SIZE - 1) THEN Fault(h, "bin_out_of_bounds")
    ELSE [h EXCEPT !.bins[i] = v]

\* data is a set of runs [lo, hi, val, off]: byte x in lo .. hi - 1 holds byte
\* off + (x - lo) of val, where val is <<>> for bytes the caller wrote (byte k
\* of val being the byte the caller stored at address k) and <<fields>> for a
\* copy of the bytes of a header that had these fields.  A byte in no run and
\* in no intact header is zero.
Piece(d, lo, hi) == [lo |-> lo, hi |-> hi, val |-> d.val, off |-> d.off + (lo - d.lo)]

\* the runs of D outside lo .. hi - 1
Cut(D, lo, hi) ==
    {Piece(d, d.lo, MMIN(d.hi, lo)) : d \in {x \in D : x.lo < lo}}
    \cup {Piece(d, IF d.lo > hi THEN d.lo ELSE hi, d.hi) : d \in {x \in D : x.hi > hi}}

\* the runs of D inside lo .. hi - 1
Slice(D, lo, hi) ==
    {Piece(d, IF d.lo > lo THEN d.lo ELSE lo, MMIN(d.hi, hi)) :
        d \in {x \in D : x.lo < hi /\ x.hi > lo}}

\* the bytes of the intact headers inside lo .. hi - 1, as runs
HeaderBytes(h, lo, hi) ==
    {[lo |-> IF a > lo THEN a ELSE lo, hi |-> MMIN(a + MetaSize, hi), val |-> <<h.mem[a]>>,
      off |-> IF a > lo THEN 0 ELSE lo - a] :
        a \in {x \in DOMAIN h.mem : x < hi /\ x + MetaSize > lo}}

Shift(D, delta) ==
    {[lo |-> d.lo + delta, hi |-> d.hi + delta, val |-> d.val, off |-> d.off] : d \in D}

\* the headers other than a whose bytes overlap the header at a
Clobbered(h, a) == {x \in DOMAIN h.mem : x # a /\ x > a - MetaSize /\ x < a + MetaSize}

INIT_METADATA(h, metadata, size, is_free, next, prev, bin_next, bin_prev) ==
    IF ~Ok(h) THEN h
    ELSE LET keep == (DOMAIN h.mem \ Clobbered(h, metadata)) \cup {metadata}
             tm == [size |-> size, is_free |-> is_free, next |-> next, prev |-> prev,
                    bin_next |-> bin_next, bin_prev |-> bin_prev]
         IN [h EXCEPT !.mem = [x \in keep |-> IF x = metadata THEN tm ELSE h.mem[x]],
                      !.data = Cut(h.data, metadata, metadata + MetaSize)]

\* LET x == v IN K(x), with v evaluated once however often K uses x
Bind(v, K(_)) == K(v)

\* ----------------------------------------------------------- list routines
\* results of a walk that does not return a block
HANG == -1
WILD == -2

RECURSIVE LastWalk(_, _, _)
LastWalk(h, block, fuel) ==
    IF fuel = 0 THEN HANG
    ELSE IF ~Has(h, block) THEN WILD
    ELSE IF h.mem[block].next = nullptr THEN block
    ELSE LastWalk(h, h.mem[block].next, fuel - 1)

get_last_metadata_block(h, list) ==
    IF list = nullptr THEN nullptr ELSE LastWalk(h, list, Fuel(h))

WalkFault(h, r) == Fault(h, IF r = HANG THEN "hang" ELSE "wild_read")

SetHead(h, which, v) ==
    IF ~Ok(h) THEN h
    ELSE IF which = "mmap" THEN [h EXCEPT !.mhead = v] ELSE [h EXCEPT !.head = v]

GetHead(h, which) == IF which = "mmap" THEN h.mhead ELSE h.head

\* an unlink that empties the list whenever the head is removed
remove_from_list_emptying(h, to_del, which) ==
    IF ~Ok(h) THEN h
    ELSE IF ~Has(h, to_del) THEN Fault(h, "wild_read")
    ELSE LET d == h.mem[to_del]
         IN SetField(SetField(
                IF d.prev = nullptr
                    THEN SetHead(h, which, nullptr)
                ELSE IF d.next = nullptr
                    THEN SetField(h, d.prev, "next", nullptr)
                ELSE SetField(SetField(h, d.next, "prev", d.prev), d.prev, "next", d.next),
                to_del, "next", nullptr), to_del, "prev", nullptr)

remove_from_list(h, to_del, which) ==
    IF ~Ok(h) THEN h
    ELSE IF ~Has(h, to_del) THEN Fault(h, "wild_read")
    ELSE LET d == h.mem[to_del]
         IN SetField(SetField(
                IF d.next = nullptr /\ d.prev = nullptr
                    THEN SetHead(h, which, nullptr)
                ELSE IF d.prev = nullptr
                    THEN SetField(SetHead(h, which, d.next), d.next, "prev", nullptr)
                ELSE IF d.next = nullptr
                    THEN SetField(h, d.prev, "next", nullptr)
                ELSE SetField(SetField(h, d.next, "prev", d.prev), d.prev, "next", d.next),
                to_del, "next", nullptr), to_del, "prev", nullptr)

remove_from_bin(h, to_del) ==
    IF ~Ok(h) THEN h
    ELSE IF ~Has(h, to_del) THEN Fault(h, "wild_read")
    ELSE LET d == h.mem[to_del]
             i == GET_BIN_ENTRY(d.size)
         IN SetField(SetField(
                IF d.bin_next = nullptr /\ d.bin_prev = nullptr
                    THEN SetBin(h, i, nullptr)
                ELSE IF d.bin_prev = nullptr
                    THEN SetField(SetBin(h, i, d.bin_next), d.bin_next, "bin_prev", nullptr)
                ELSE SetField(h, d.bin_prev, "bin_next", nullptr),
                to_del, "bin_next", nullptr), to_del, "bin_prev", nullptr)

\* the non-empty case of insert_to_metadata_list, after is the last block
AppendAfter(h, after, new_block) ==
    IF after < 0 THEN WalkFault(h, after)
    ELSE SetField(SetField(SetField(h, after, "next", new_block),
                           new_block, "prev", after), new_block, "next", nullptr)

insert_to_metadata_list(h, new_block, which) ==
    IF ~Ok(h) THEN h
    ELSE IF GetHead(h, which) = nullptr
        THEN SetHead(SetField(SetField(h, new_block, "prev", nullptr),
                              new_block, "next", nullptr), which, new_block)
    ELSE AppendAfter(h, get_last_metadata_block(h, GetHead(h, which)), new_block)

\* the loop of insert_block_to_bin over a nonempty bucket
RECURSIVE InsertWalk(_, _, _, _, _)
InsertWalk(h, new_block, block, lastb, fuel) ==
    IF block = nullptr
        THEN \* insert new_block last
             SetField(SetField(SetField(SetField(h, new_block, "bin_next", nullptr),
                 new_block, "bin_prev", lastb), lastb, "bin_next", new_block),
                 new_block, "is_free", TRUE)
    ELSE IF fuel = 0 THEN Fault(h, "hang")
    ELSE IF ~Has(h, block) THEN Fault(h, "wild_read")
    ELSE IF h.mem[block].size >= h.mem[new_block].size
        THEN LET prev == h.mem[block].bin_prev
             IN IF prev = nullptr
                THEN SetBin(SetField(SetField(SetField(h, block, "bin_prev", new_block),
                         new_block, "bin_next", block), new_block, "bin_prev", nullptr),
                         GET_BIN_ENTRY(h.mem[new_block].size), new_block)
                ELSE SetField(SetField(SetField(SetField(h, prev, "bin_next", new_block),
                         new_block, "bin_prev", prev), new_block, "bin_next", block),
                         block, "bin_prev", new_block)
    ELSE InsertWalk(h, new_block, h.mem[block].bin_next, block, fuel - 1)

insert_block_to_bin(h, new_block) ==
    IF ~Ok(h) THEN h
    ELSE IF ~Has(h, new_block) THEN Fault(h, "wild_read")
    ELSE LET i == GET_BIN_ENTRY(h.mem[new_block].size)
         IN IF i \notin 0 .. (BIN_SIZE - 1) THEN Fault(h, "bin_out_of_bounds")
            ELSE IF h.bins[i] = nullptr
                THEN SetBin(SetField(SetField(h, new_block, "bin_prev", nullptr),
                                     new_block, "bin_next", nullptr), i, new_block)
            ELSE InsertWalk(h, new_block, h.bins[i], nullptr, Fuel(h))

\* a split whose remainder counts the bytes of its own header as payload
CutTail_headerless(h, block, size) ==
    IF ~Ok(h) THEN h
    ELSE IF ~Has(h, block) THEN Fault(h, "wild_read")
    ELSE LET b == h.mem[block]
             new_block_size == b.size - size
             new_block == block + size + MetaSize
         IN IF new_block + MetaSize > h.brk \/ new_block_size < MetaSize
                THEN Fault(h, "wild_write")
            ELSE SetField(SetField(SetField(SetField(SetField(
                     Bind(insert_block_to_bin(
                              INIT_METADATA(h, new_block, new_block_size,
                                            TRUE, b.next, block, nullptr, nullptr),
                              new_block),
                          LAMBDA h3 : IF b.next # nullptr
                                          THEN SetField(h3, b.next, "prev", new_block)
                                          ELSE h3),
                     block, "next", new_block), block, "is_free", FALSE),
                     block, "size", size), block, "bin_next", nullptr),
                     block, "bin_prev", nullptr)

\* cut_block after its optional remove_from_bin
CutTail(h, block, size) ==
    IF ~Ok(h) THEN h
    ELSE IF ~Has(h, block) THEN Fault(h, "wild_read")
    ELSE LET b == h.mem[block]
             new_block_size == b.size - size
             new_block == block + size + MetaSize
         IN IF new_block + MetaSize > h.brk \/ new_block_size < MetaSize
                THEN Fault(h, "wild_write")
            ELSE SetField(SetField(SetField(SetField(SetField(
                     Bind(insert_block_to_bin(
                              INIT_METADATA(h, new_block, new_block_size - MetaSize,
                                            TRUE, b.next, block, nullptr, nullptr),
                              new_block),
                          LAMBDA h3 : IF b.next # nullptr
                                          THEN SetField(h3, b.next, "prev", new_block)
                                          ELSE h3),
                     block, "next", new_block), block, "is_free", FALSE),
                     block, "size", size), block, "bin_next", nullptr),
                     block, "bin_prev", nullptr)

cut_block(h, block, size, remove_bin) ==
    IF remove_bin THEN CutTail(remove_from_bin(h, block), block, size)
    ELSE CutTail(h, block, size)

\* ------------------------------------------------------------ OS primitives
\* os = [ok |-> whether the OS grants the request, slot |-> the base mmap returns]
\* sbrk(incr): the old break, or SBRK_FAIL and no change.  The bytes between a
\* lowered break and the old one keep their value in the model.
sbrk(h, incr, os) ==
    IF ~Ok(h) THEN [h |-> h, ret |-> SBRK_FAIL]
    ELSE IF ~os.ok \/ h.brk + incr > InitBrk + MaxHeap \/ h.brk + incr < 0
        THEN [h |-> [h EXCEPT !.os = "fail"], ret |-> SBRK_FAIL]
    ELSE [h |-> [h EXCEPT !.brk = h.brk + incr, !.os = "ok"], ret |-> h.brk]

MAP_FAILED == -1

mmap(h, length, os) ==
    IF ~Ok(h) THEN [h |-> h, ret |-> MAP_FAILED]
    ELSE IF ~os.ok \/ os.slot \in h.mapped \/ length > MmapStride
        THEN [h |-> [h EXCEPT !.os = "fail"], ret |-> MAP_FAILED]
    ELSE [h |-> [h EXCEPT !.mapped = h.mapped \cup {os.slot}, !.os = "ok"], ret |-> os.slot]

\* the headers inside an unmapped region are gone
munmap(h, addr, length) ==
    IF ~Ok(h) THEN h
    ELSE IF addr \notin h.mapped THEN Fault(h, "munmap_of_brk_memory")
    ELSE [h EXCEPT !.mapped = h.mapped \ {addr},
                   !.mem = [x \in {y \in DOMAIN h.mem : y < addr \/ y >= addr + length}
                               |-> h.mem[x]],
                   !.data = Cut(h.data, addr, addr + length)]

\* --------------------------------------------------------------- allocation
RECURSIVE ScanBins(_, _, _)
RECURSIVE ScanChain(_, _, _, _, _)

\* the body of the inner loop of get_free_metadata_block, which steps by ->next
ScanChain(h, size, i, block, fuel) ==
    IF block = nullptr THEN ScanBins(h, size, i + 1)
    ELSE IF fuel = 0 THEN [h |-> Fault(h, "hang"), ret |-> nullptr]
    ELSE IF ~Has(h, block) THEN [h |-> Fault(h, "wild_read"), ret |-> nullptr]
    ELSE IF h.mem[block].size >= size
        THEN IF IS_LARGE_ENOUGH(h.mem[block].size, size)
                 THEN [h |-> SetField(cut_block(h, block, size, TRUE), block, "is_free", FALSE),
                       ret |-> block]
                 ELSE [h |-> SetField(remove_from_bin(h, block), block, "is_free", FALSE),
                       ret |-> block]
    ELSE ScanChain(h, size, i, h.mem[block].next, fuel - 1)

\* the outer loop from bucket i on: empty buckets are skipped ("continue")
ScanBins(h, size, i) ==
    LET nonempty == {j \in i .. (BIN_SIZE - 1) : h.bins[j] # nullptr}
    IN IF nonempty = {} THEN [h |-> h, ret |-> nullptr]
       ELSE LET j == CHOOSE j \in nonempty : \A k \in nonempty : j <= k
            IN ScanChain(h, size, j, h.bins[j], Fuel(h))

get_free_metadata_block(h, size) ==
    IF ~Ok(h) THEN [h |-> h, ret |-> nullptr]
    ELSE ScanBins(h, size, GET_BIN_ENTRY(size))

\* faulty variant of UnlinkLast: the tail is marked used and resized before
\* the result of sbrk is looked at
UnlinkLastEarly(h, r, lastb, size) ==
    [h |-> SetField(SetField(r.h, lastb, "is_free", FALSE), lastb, "size", size),
     ret |-> IF r.ret = SBRK_FAIL THEN nullptr ELSE GET_PTR_FROM_METADATA(lastb)]

\* the hand-written unlink of the tail-extension branch and what follows it;
\* r is the result of sbrk
UnlinkLast(h, r, lastb, size) ==
    IF r.ret = SBRK_FAIL THEN [h |-> r.h, ret |-> nullptr]
    ELSE LET l == h.mem[lastb]
         IN [h |-> SetField(SetField(
                     IF l.bin_prev = nullptr
                         THEN SetBin(r.h, GET_BIN_ENTRY(l.size), l.bin_next)
                     ELSE IF l.bin_next # nullptr
                         THEN SetField(SetField(r.h, l.bin_prev, "bin_next", l.bin_next),
                                       l.bin_next, "bin_prev", l.bin_prev)
                     ELSE SetField(r.h, l.bin_prev, "bin_next", l.bin_next),
                     lastb, "is_free", FALSE), lastb, "size", size),
             ret |-> GET_PTR_FROM_METADATA(lastb)]

\* the tail-extension branch of smalloc
ExtendLast(h, lastb, size, os) ==
    UnlinkLast(h, sbrk(h, GET_SIZE_WITH_ALIGNMENT(size) - h.mem[lastb].size, os), lastb, size)

\* a new block of size bytes at address base, appended to a chain
NewBlock(h, base, size, which) ==
    [h |-> insert_to_metadata_list(
               INIT_METADATA(h, base, size, FALSE, nullptr, nullptr, nullptr, nullptr),
               base, which),
     ret |-> GET_PTR_FROM_METADATA(base)]

\* smalloc: the large path, m is the result of mmap
MapBlock(h, m, size) ==
    IF m.ret = MAP_FAILED THEN [h |-> m.h, ret |-> nullptr] ELSE NewBlock(m.h, m.ret, size, "mmap")

\* smalloc: fresh growth, r is the result of sbrk
GrowBlock(h, r, size) ==
    IF r.ret = SBRK_FAIL THEN [h |-> r.h, ret |-> nullptr] ELSE NewBlock(r.h, r.ret, size, "brk")

\* smalloc after get_free_metadata_block found nothing; lastb is the last block
ExtendOrGrow(h, lastb, size, os) ==
    IF lastb < 0 THEN [h |-> WalkFault(h, lastb), ret |-> nullptr]
    ELSE IF lastb # nullptr /\ h.mem[lastb].is_free THEN ExtendLast(h, lastb, size, os)
    ELSE GrowBlock(h, sbrk(h, size + MetaSize, os), size)

\* smalloc after get_free_metadata_block returned f
AfterScan(f, size, os) ==
    IF ~Ok(f.h) THEN [h |-> f.h, ret |-> nullptr]
    ELSE IF f.ret # nullptr THEN [h |-> f.h, ret |-> GET_PTR_FROM_METADATA(f.ret)]
    ELSE ExtendOrGrow(f.h, get_last_metadata_block(f.h, f.h.head), size, os)

\* smalloc once the size is accepted and aligned
AllocAligned(h, size, os) ==
    IF size >= MIN_KB_BLOCK THEN MapBlock(h, mmap(h, size + MetaSize, os), size)
    ELSE AfterScan(get_free_metadata_block(h, size), size, os)

\* faulty variant of smalloc: the size is not validated
smalloc_unchecked(h, size, os) ==
    IF ~Ok(h) THEN [h |-> h, ret |-> nullptr]
    ELSE AllocAligned(h, GET_SIZE_WITH_ALIGNMENT(size), os)

\* a smalloc that keeps the size as the caller wrote it
smalloc_as_given(h, size, os) ==
    IF ~Ok(h) THEN [h |-> h, ret |-> nullptr]
    ELSE IF size > MAX_MALLOC_4_SIZE \/ size = 0 THEN [h |-> h, ret |-> nullptr]
    ELSE AllocAligned(h, size, os)

smalloc(h, size, os) ==
    IF ~Ok(h) THEN [h |-> h, ret |-> nullptr]
    ELSE IF size > MAX_MALLOC_4_SIZE \/ size = 0 THEN [h |-> h, ret |-> nullptr]
    ELSE AllocAligned(h, GET_SIZE_WITH_ALIGNMENT(size), os)

\* memset(p, 0, n): the n bytes hold neither caller data nor a header
memset(h, p, n) ==
    IF ~Ok(h) THEN h
    ELSE [h EXCEPT !.mem = [x \in {y \in DOMAIN h.mem : y + MetaSize <= p \/ y >= p + n}
                               |-> h.mem[x]],
                   !.data = Cut(h.data, p, p + n)]

\* the argument smalloc receives for the size_t w: a size_t of 2^31 or more
\* is over MAX_MALLOC_4_SIZE whatever its value
Requested(w) == IF SizeTSmall(w) THEN SizeTValue(w) ELSE MAX_MALLOC_4_SIZE + 1

\* scalloc without the memset
scalloc_dirty(h, num, size, os) ==
    smalloc(h, Requested(SizeTMul(num, size)), os)

scalloc(h, num, size, os) ==
    Bind(smalloc(h, Requested(SizeTMul(num, size)), os),
         LAMBDA res : IF res.ret # nullptr
                          THEN [h |-> memset(res.h, res.ret, Requested(SizeTMul(num, size))),
                                ret |-> res.ret]
                          ELSE [h |-> res.h, ret |-> nullptr])

\* --------------------------------------------------------------------- free
\* memmove(dst, src, n) of payload bytes: a header whose bytes lie in the
\* destination now holds caller data
\* a memmove that claims the destination and copies nothing into it
memmove_nothing(h, dst, src, n) ==
    IF ~Ok(h) THEN h
    ELSE [h EXCEPT !.data = Cut(h.data, dst, dst + n)]

memmove(h, dst, src, n) ==
    IF ~Ok(h) THEN h
    ELSE IF dst = nullptr THEN Fault(h, "memmove_to_nullptr")
    ELSE [h EXCEPT !.mem = [x \in {y \in DOMAIN h.mem : y + MetaSize <= dst \/ y >= dst + n}
                               |-> h.mem[x]],
                   !.data = Cut(h.data, dst, dst + n)
                            \cup Shift(Slice(h.data, src, src + n)
                                       \cup HeaderBytes(h, src, src + n), dst - src)]

\* "keeper->size += gone->size + sizeof(malloc_metadata_t) + extra"
Grow(h, keeper, gone, extra) ==
    IF ~Ok(h) THEN h
    ELSE IF ~Has(h, keeper) \/ ~Has(h, gone) THEN Fault(h, "wild_read")
    ELSE SetField(h, keeper, "size", h.mem[keeper].size + h.mem[gone].size + MetaSize + extra)

\* "keeper->next = after; if (after) after->prev = keeper"
Splice(h, keeper, after) ==
    IF after # nullptr
        THEN SetField(SetField(h, keeper, "next", after), after, "prev", keeper)
        ELSE SetField(h, keeper, "next", after)

\* sfree: "try to merge with next"
MergeWithNext(h, to_free) ==
    IF ~Ok(h) THEN h
    ELSE IF ~Has(h, to_free) THEN Fault(h, "wild_read")
    ELSE LET temp == h.mem[to_free].next
         IN IF temp = nullptr THEN h
            ELSE IF ~Has(h, temp) THEN Fault(h, "wild_read")
            ELSE IF ~h.mem[temp].is_free THEN h
            ELSE insert_block_to_bin(
                     Grow(remove_from_bin(remove_from_bin(
                              Splice(h, to_free, h.mem[temp].next), temp), to_free),
                          to_free, temp, 0),
                     to_free)

\* a merge with prev that forgets to put the merged block back into a bucket
MergeWithPrev_unbinned(h, to_free) ==
    IF ~Ok(h) THEN h
    ELSE IF ~Has(h, to_free) THEN Fault(h, "wild_read")
    ELSE LET temp == h.mem[to_free].prev
         IN IF temp = nullptr THEN h
            ELSE IF ~Has(h, temp) THEN Fault(h, "wild_read")
            ELSE IF ~h.mem[temp].is_free THEN h
            ELSE Grow(remove_from_bin(remove_from_bin(
                          Splice(h, temp, h.mem[to_free].next), temp), to_free),
                      temp, to_free, 0)

\* sfree: "try to merge with prev"
MergeWithPrev(h, to_free) ==
    IF ~Ok(h) THEN h
    ELSE IF ~Has(h, to_free) THEN Fault(h, "wild_read")
    ELSE LET temp == h.mem[to_free].prev
         IN IF temp = nullptr THEN h
            ELSE IF ~Has(h, temp) THEN Fault(h, "wild_read")
            ELSE IF ~h.mem[temp].is_free THEN h
            ELSE insert_block_to_bin(
                     Grow(remove_from_bin(remove_from_bin(
                              Splice(h, temp, h.mem[to_free].next), temp), to_free),
                          temp, to_free, 0),
                     temp)

sfree(h, p) ==
    IF ~Ok(h) \/ p = nullptr THEN h
    ELSE LET to_free == GET_METADATA_FROM_PTR(p)
         IN IF ~Has(h, to_free) THEN Fault(h, "wild_read")
            ELSE IF h.mem[to_free].size >= MIN_KB_BLOCK
                THEN munmap(remove_from_list(h, to_free, "mmap"), to_free,
                            h.mem[to_free].size + MetaSize)
            ELSE SetField(MergeWithPrev(MergeWithNext(insert_block_to_bin(h, to_free),
                              to_free), to_free), to_free, "is_free", TRUE)

\* ------------------------------------------------------------------ realloc
\* the merge of blk->next with blk->next->next that follows every cut_block
\* of srealloc (the same statements in all four branches)
MergeNextNext(h, blk) ==
    IF ~Ok(h) THEN h
    ELSE IF ~Has(h, blk) THEN Fault(h, "wild_read")
    ELSE LET base == h.mem[blk].next
         IN IF base = nullptr THEN h
            ELSE IF ~Has(h, base) THEN Fault(h, "wild_read")
            ELSE IF ~h.mem[base].is_free THEN h
            ELSE LET base_next == h.mem[base].next
                 IN IF base_next = nullptr THEN h
                    ELSE IF ~Has(h, base_next) THEN Fault(h, "wild_read")
                    ELSE IF ~h.mem[base_next].is_free THEN h
                    ELSE insert_block_to_bin(
                             Grow(Splice(remove_from_bin(remove_from_bin(h, base), base_next),
                                         base, h.mem[base_next].next),
                                  base, base_next, 0),
                             base)

\* "if (IS_LARGE_ENOUGH(blk->size, size)) { cut_block(...); merge ... }"
CutAndMerge(h, blk, size, remove_bin) ==
    IF ~Ok(h) THEN h
    ELSE IF ~Has(h, blk) THEN Fault(h, "wild_read")
    ELSE IF IS_LARGE_ENOUGH(h.mem[blk].size, size)
        THEN MergeNextNext(cut_block(h, blk, size, remove_bin), blk)
    ELSE h

\* the free block ret absorbs the block old_ptr that follows it
AbsorbIntoPrev(h, ret, old_ptr) ==
    Grow(Splice(SetField(remove_from_bin(h, ret), ret, "is_free", FALSE),
                ret, h.mem[old_ptr].next),
         ret, old_ptr, 0)

\* an absorb that leaves the absorbed block to_merge in its bucket
AbsorbNext_binned(h, old_ptr, to_merge) ==
    Grow(Splice(SetField(h, old_ptr, "is_free", FALSE), old_ptr, h.mem[to_merge].next),
         old_ptr, to_merge, 0)

\* old_ptr absorbs the free block to_merge that follows it
AbsorbNext(h, old_ptr, to_merge) ==
    Grow(Splice(SetField(remove_from_bin(h, to_merge), old_ptr, "is_free", FALSE),
                old_ptr, h.mem[to_merge].next),
         old_ptr, to_merge, 0)

\* the free block prev absorbs old_ptr and the free block next
AbsorbBoth(h, prev, old_ptr, next) ==
    Grow(Splice(SetField(remove_from_bin(remove_from_bin(h, prev), next),
                         prev, "is_free", FALSE),
                prev, h.mem[next].next),
         prev, old_ptr, h.mem[next].size + MetaSize)

\* tail branch after the predecessor ret absorbed old_ptr; r is the result of sbrk
ExtendAbsorbed(h, r, ret, oldp, size) ==
    IF ~Ok(h) \/ r.ret = SBRK_FAIL THEN [h |-> r.h, ret |-> nullptr]
    ELSE [h |-> memmove(SetField(r.h, ret, "size", size), GET_PTR_FROM_METADATA(ret), oldp,
                        h.mem[GET_METADATA_FROM_PTR(oldp)].size),
          ret |-> GET_PTR_FROM_METADATA(ret)]

\* sbrk(size - ret->size) once ret has absorbed old_ptr
SbrkAbsorbed(h, ret, oldp, size, os) ==
    IF ~Ok(h) THEN [h |-> h, ret |-> nullptr]
    ELSE ExtendAbsorbed(h, sbrk(h, size - h.mem[ret].size, os), ret, oldp, size)

\* tail branch without a free predecessor; r is the result of sbrk
ExtendTail(h, r, old_ptr, size) ==
    IF r.ret = SBRK_FAIL THEN [h |-> r.h, ret |-> nullptr]
    ELSE [h |-> SetField(r.h, old_ptr, "size", size), ret |-> GET_PTR_FROM_METADATA(old_ptr)]

\* memmove to the block smalloc returned (r), then sfree(oldp); the mmap branch
\* returns early when smalloc failed (checked), the last branch does not
MoveTo(r, oldp, size, checked) ==
    IF ~Ok(r.h) THEN [h |-> r.h, ret |-> nullptr]
    ELSE IF checked /\ r.ret = nullptr THEN [h |-> r.h, ret |-> nullptr]
    ELSE IF ~Has(r.h, GET_METADATA_FROM_PTR(oldp))
        THEN [h |-> Fault(r.h, "wild_read"), ret |-> nullptr]
    ELSE [h |-> sfree(memmove(r.h, r.ret, oldp,
                              MMIN(size, r.h.mem[GET_METADATA_FROM_PTR(oldp)].size)), oldp),
          ret |-> r.ret]

\* srealloc of a block of the brk chain that is too small for size
GrowInPlace(h, oldp, size, os) ==
    LET old_ptr == GET_METADATA_FROM_PTR(oldp)
        o == h.mem[old_ptr]
        prevOk == o.prev # nullptr /\ Has(h, o.prev)
        nextOk == o.next # nullptr /\ Has(h, o.next)
    IN
    IF o.prev # nullptr /\ ~prevOk THEN [h |-> Fault(h, "wild_read"), ret |-> nullptr]
    \* merge with the adjacent block with the lower address
    ELSE IF prevOk /\ h.mem[o.prev].is_free /\ h.mem[o.prev].size + o.size >= size
        THEN [h |-> CutAndMerge(memmove(AbsorbIntoPrev(h, o.prev, old_ptr),
                                        GET_PTR_FROM_METADATA(o.prev), oldp, MMIN(size, o.size)),
                                o.prev, size, FALSE),
              ret |-> GET_PTR_FROM_METADATA(o.prev)]
    ELSE IF o.next # nullptr /\ ~nextOk THEN [h |-> Fault(h, "wild_read"), ret |-> nullptr]
    \* merge with the adjacent block with the higher address
    ELSE IF nextOk /\ h.mem[o.next].is_free /\ h.mem[o.next].size + o.size >= size
        THEN [h |-> CutAndMerge(AbsorbNext(h, old_ptr, o.next), old_ptr, size, FALSE),
              ret |-> GET_PTR_FROM_METADATA(old_ptr)]
    \* merge all those three adjacent blocks together
    ELSE IF /\ prevOk /\ h.mem[o.prev].is_free
            /\ nextOk /\ h.mem[o.next].is_free
            /\ h.mem[o.prev].size + h.mem[o.next].size + o.size >= size
        THEN [h |-> CutAndMerge(memmove(AbsorbBoth(h, o.prev, old_ptr, o.next),
                                        GET_PTR_FROM_METADATA(o.prev), oldp, MMIN(size, o.size)),
                                o.prev, size, FALSE),
              ret |-> GET_PTR_FROM_METADATA(o.prev)]
    \* expand the last block
    ELSE IF o.next = nullptr
        THEN IF prevOk /\ h.mem[o.prev].is_free
                 THEN SbrkAbsorbed(AbsorbIntoPrev(h, o.prev, old_ptr), o.prev, oldp, size, os)
                 ELSE ExtendTail(h, sbrk(h, size - o.size, os), old_ptr, size)
    \* allocate a new block
    ELSE MoveTo(smalloc(h, size, os), oldp, size, FALSE)

\* faulty variant of ReallocAligned: a block of exactly the requested size is
\* not reused
ReallocAlignedStrict(h, oldp, size, os) ==
    IF oldp = nullptr THEN smalloc(h, size, os)
    ELSE IF ~Has(h, GET_METADATA_FROM_PTR(oldp))
        THEN [h |-> Fault(h, "wild_read"), ret |-> nullptr]
    ELSE IF h.mem[GET_METADATA_FROM_PTR(oldp)].size >= MIN_KB_BLOCK
        THEN MoveTo(smalloc(h, size, os), oldp, size, TRUE)
    ELSE IF h.mem[GET_METADATA_FROM_PTR(oldp)].size > size
        THEN [h |-> CutAndMerge(h, GET_METADATA_FROM_PTR(oldp), size, TRUE), ret |-> oldp]
    ELSE GrowInPlace(h, oldp, size, os)

\* srealloc once the size is accepted and aligned
ReallocAligned(h, oldp, size, os) ==
    IF oldp = nullptr THEN smalloc(h, size, os)
    ELSE IF ~Has(h, GET_METADATA_FROM_PTR(oldp))
        THEN [h |-> Fault(h, "wild_read"), ret |-> nullptr]
    \* ** oldp is mmap **
    ELSE IF h.mem[GET_METADATA_FROM_PTR(oldp)].size >= MIN_KB_BLOCK
        THEN MoveTo(smalloc(h, size, os), oldp, size, TRUE)
    \* reuse the current block without any merging
    ELSE IF h.mem[GET_METADATA_FROM_PTR(oldp)].size >= size
        THEN [h |-> CutAndMerge(h, GET_METADATA_FROM_PTR(oldp), size, TRUE), ret |-> oldp]
    ELSE GrowInPlace(h, oldp, size, os)

\* faulty variant of srealloc: a rejected size releases oldp, as realloc(3)
\* does for size 0
srealloc_frees(h, oldp, size, os) ==
    IF ~Ok(h) THEN [h |-> h, ret |-> nullptr]
    ELSE IF size > MAX_MALLOC_4_SIZE \/ size = 0 THEN [h |-> sfree(h, oldp), ret |-> nullptr]
    ELSE ReallocAligned(h, oldp, GET_SIZE_WITH_ALIGNMENT(size), os)

\* an srealloc that does not serve a null oldp
srealloc_nonnull(h, oldp, size, os) ==
    IF ~Ok(h) \/ oldp = nullptr THEN [h |-> h, ret |-> nullptr]
    ELSE IF size > MAX_MALLOC_4_SIZE \/ size = 0 THEN [h |-> h, ret |-> nullptr]
    ELSE ReallocAligned(h, oldp, GET_SIZE_WITH_ALIGNMENT(size), os)

srealloc(h, oldp, size, os) ==
    IF ~Ok(h) THEN [h |-> h, ret |-> nullptr]
    ELSE IF size > MAX_MALLOC_4_SIZE \/ size = 0 THEN [h |-> h, ret |-> nullptr]
    ELSE ReallocAligned(h, oldp, GET_SIZE_WITH_ALIGNMENT(size), os)

\* ------------------------------------------------------------------ actions
OsOutcomes == [ok : BOOLEAN, slot : MmapSlots]

Commit(h) ==
    /\ mem' = h.mem
    /\ metadata_head' = h.head
    /\ mmap_metadata_head' = h.mhead
    /\ free_block_bin' = h.bins
    /\ brk' = h.brk
    /\ mapped' = h.mapped
    /\ data' = h.data
    /\ fault' = h.fault

\* the variables hold the heap h
Holds(h) ==
    /\ mem = h.mem
    /\ metadata_head = h.head
    /\ mmap_metadata_head = h.mhead
    /\ free_block_bin = h.bins
    /\ brk = h.brk
    /\ mapped = h.mapped
    /\ data = h.data
    /\ fault = h.fault

Init ==
    /\ mem = [x \in {} |-> x]
    /\ metadata_head = nullptr
    /\ mmap_metadata_head = nullptr
    /\ free_block_bin = [i \in 0 .. (BIN_SIZE - 1) |-> nullptr]
    /\ brk = InitBrk
    /\ mapped = {}
    /\ data = {}
    /\ fault = "none"
    /\ live = {}
    /\ last = [op |-> "init", p |-> nullptr, size |-> 0, ret |-> nullptr, os |-> "none",
               chained |-> FALSE]
    /\ nops = 0

\* p = smalloc(n)
Malloc(n, os, lim) ==
    /\ fault = "none"
    /\ nops < lim
    /\ nops' = nops + 1
    /\ \E r \in {smalloc(Heap, n, os)} :
          /\ Commit(r.h)
          /\ live' = IF Ok(r.h) /\ r.ret # nullptr
                         THEN live \cup {[ptr |-> r.ret, size |-> n]} ELSE live
          /\ last' = [op |-> "smalloc", p |-> nullptr, size |-> n, ret |-> r.ret,
                      os |-> r.h.os, chained |-> FALSE]

\* p = scalloc(num, size)
Calloc(num, size, os, lim) ==
    /\ fault = "none"
    /\ nops < lim
    /\ nops' = nops + 1
    /\ \E r \in {scalloc(Heap, num, size, os)} :
          /\ Commit(r.h)
          /\ live' = IF Ok(r.h) /\ r.ret # nullptr
                         THEN live \cup {[ptr |-> r.ret, size |-> Requested(SizeTMul(num, size))]}
                         ELSE live
          /\ last' = [op |-> "scalloc", p |-> nullptr, size |-> Requested(SizeTMul(num, size)),
                      ret |-> r.ret, os |-> r.h.os, chained |-> FALSE,
                      num |-> num, elem |-> size]

\* sfree(e.ptr) for an allocation the caller holds
Free(e, lim) ==
    /\ fault = "none"
    /\ nops < lim
    /\ nops' = nops + 1
    /\ \E h \in {sfree(Heap, e.ptr)} :
          /\ Commit(h)
          /\ live' = live \ {e}
          /\ last' = [op |-> "sfree", p |-> e.ptr, size |-> e.size, ret |-> nullptr,
                      os |-> "none",
                      chained |-> last.op = "smalloc" /\ last.ret = e.ptr /\ last.size = e.size]

\* the headers whose bytes overlap the payload bytes of allocation e
InPayload(e) == {x \in DOMAIN mem : x + MetaSize > e.ptr /\ x < e.ptr + e.size}

\* the contents of memory once the caller has stored its bytes in allocation e
Stored(e) ==
    Cut(data, e.ptr, e.ptr + e.size)
    \cup {[lo |-> e.ptr, hi |-> e.ptr + e.size, val |-> <<>>, off |-> e.ptr]}

\* the caller writes the bytes of an allocation it holds
CallerWrite(e) ==
    /\ fault = "none"
    /\ InPayload(e) # {}
    /\ mem' = [x \in DOMAIN mem \ InPayload(e) |-> mem[x]]
    /\ data' = Stored(e)
    /\ last' = [op |-> "write", p |-> e.ptr, size |-> e.size, ret |-> nullptr, os |-> "none",
                chained |-> FALSE]
    /\ UNCHANGED <<metadata_head, mmap_metadata_head, free_block_bin, brk, mapped, fault, live,
                   nops>>

\* q = srealloc(e.ptr, n) for an allocation the caller holds
Realloc(e, n, os, lim) ==
    /\ fault = "none"
    /\ nops < lim
    /\ nops' = nops + 1
    /\ \E r \in {srealloc(Heap, e.ptr, n, os)} :
          /\ Commit(r.h)
          /\ live' = IF Ok(r.h) /\ r.ret # nullptr
                         THEN (live \ {e}) \cup {[ptr |-> r.ret, size |-> n]} ELSE live
          /\ last' = [op |-> "srealloc", p |-> e.ptr, size |-> n, ret |-> r.ret,
                      os |-> r.h.os, chained |-> FALSE]

\* q = srealloc(nullptr, n)
ReallocNull(n, os, lim) ==
    /\ fault = "none"
    /\ nops < lim
    /\ nops' = nops + 1
    /\ \E r \in {srealloc(Heap, nullptr, n, os)} :
          /\ Commit(r.h)
          /\ live' = IF Ok(r.h) /\ r.ret # nullptr
                         THEN live \cup {[ptr |-> r.ret, size |-> n]} ELSE live
          /\ last' = [op |-> "srealloc", p |-> nullptr, size |-> n, ret |-> r.ret,
                      os |-> r.h.os, chained |-> FALSE]

Next ==
    \/ \E n \in Sizes, os \in OsOutcomes : Malloc(n, os, MaxOps)
    \/ \E e \in live : Free(e, MaxOps)
    \/ \E e \in live, n \in Sizes, os \in OsOutcomes : Realloc(e, n, os, MaxOps)
    \/ \E n \in Sizes, os \in OsOutcomes : ReallocNull(n, os, MaxOps)
    \/ \E e \in live : CallerWrite(e)

NextWide ==
    \/ \E n \in SizesWide, os \in OsOutcomes : Malloc(n, os, MaxOpsWide)
    \/ \E e \in live : Free(e, MaxOpsWide)
    \/ \E e \in live, n \in SizesWide, os \in OsOutcomes : Realloc(e, n, os, MaxOpsWide)
    \/ \E n \in SizesWide, os \in OsOutcomes : ReallocNull(n, os, MaxOpsWide)
    \/ \E a \in CallocArgsWide, os \in OsOutcomes : Calloc(a[1], a[2], os, MaxOpsWide)
    \/ \E e \in live : CallerWrite(e)

\* the caller stores into an allocation it holds, whatever lies there
CallerFill(e) ==
    /\ fault = "none"
    /\ Stored(e) # data
    /\ mem' = [x \in DOMAIN mem \ InPayload(e) |-> mem[x]]
    /\ data' = Stored(e)
    /\ last' = [op |-> "write", p |-> e.ptr, size |-> e.size, ret |-> nullptr, os |-> "none",
                chained |-> FALSE]
    /\ UNCHANGED <<metadata_head, mmap_metadata_head, free_block_bin, brk, mapped, fault, live,
                   nops>>

\* every allocation the caller holds is full of the bytes it stored there
AllStored == \A e \in live : Stored(e) = data

\* SpecData: the caller fills every allocation before its next call, and
\* ends with one srealloc
NextData ==
    \/ \E n \in SizesData, os \in OsOutcomes :
          AllStored /\ last.op # "srealloc" /\ Malloc(n, os, MaxOpsData)
    \/ \E e \in live : AllStored /\ last.op # "srealloc" /\ Free(e, MaxOpsData)
    \/ \E e \in live, n \in GrowSizes, os \in OsOutcomes :
          AllStored /\ Realloc(e, n, os, MaxOpsData)
    \/ \E e \in live : last.op # "srealloc" /\ CallerFill(e)

\* SpecZero: the caller fills every allocation before its next call and
\* also allocates with scalloc
NextZero ==
    \/ \E n \in SizesZero, os \in OsOutcomes : AllStored /\ Malloc(n, os, MaxOpsZero)
    \/ \E e \in live : AllStored /\ Free(e, MaxOpsZero)
    \/ \E a \in CallocArgs, os \in OsOutcomes : AllStored /\ Calloc(a[1], a[2], os, MaxOpsZero)
    \/ \E e \in live : CallerFill(e)

Spec == Init /\ [][Next]_vars

SpecData == Init /\ [][NextData]_vars

SpecWide == Init /\ [][NextWide]_vars

SpecZero == Init /\ [][NextZero]_vars

\* ----------------------------------------------------------------- counters
\* the blocks METADATA_FOR_EACH visits from list, in order; the walk of the
\* model ends where the loop of the code would leave the intact headers
RECURSIVE Follow(_, _, _)
Follow(block, field, fuel) ==
    IF block = nullptr \/ fuel = 0 \/ block \notin DOMAIN mem THEN <<>>
    ELSE <<block>> \o Follow(mem[block][field], field, fuel - 1)

METADATA_FOR_EACH(list) == Follow(list, "next", Cardinality(DOMAIN mem) + 1)

RECURSIVE SumSize(_, _)
SumSize(blocks, k) ==
    IF k = 0 THEN 0 ELSE mem[blocks[k]].size + SumSize(blocks, k - 1)

FreeOnly(blocks) == SelectSeq(blocks, LAMBDA b : mem[b].is_free)

_num_free_blocks == Len(FreeOnly(METADATA_FOR_EACH(metadata_head)))

_num_free_bytes ==
    SumSize(FreeOnly(METADATA_FOR_EACH(metadata_head)),
            Len(FreeOnly(METADATA_FOR_EACH(metadata_head))))

_num_allocated_blocks ==
    Len(METADATA_FOR_EACH(metadata_head)) + Len(METADATA_FOR_EACH(mmap_metadata_head))

_num_allocated_bytes ==
    SumSize(METADATA_FOR_EACH(metadata_head), Len(METADATA_FOR_EACH(metadata_head)))
    + SumSize(METADATA_FOR_EACH(mmap_metadata_head), Len(METADATA_FOR_EACH(mmap_metadata_head)))

_num_meta_data_bytes ==
    MetaSize * Len(METADATA_FOR_EACH(metadata_head))
    + MetaSize * Len(METADATA_FOR_EACH(mmap_metadata_head))

_size_meta_data == MetaSize

Counters ==
    <<_num_free_blocks, _num_free_bytes, _num_allocated_blocks, _num_allocated_bytes,
      _num_meta_data_bytes, _size_meta_data>>

\* -------------------------------------------------------------------- views
\* the blocks of the brk chain and of the mapped chain
BrkChain == METADATA_FOR_EACH(metadata_head)
MmapChain == METADATA_FOR_EACH(mmap_metadata_head)
BrkBlocks == {BrkChain[k] : k \in DOMAIN BrkChain}
MmapBlocks == {MmapChain[k] : k \in DOMAIN MmapChain}

\* the blocks reachable from bucket i by bin_next, in order
BinList(i) == Follow(free_block_bin[i], "bin_next", Cardinality(DOMAIN mem) + 1)

\* the places <<bucket, position>> at which block b is reachable from a bucket
BinPlaces(b) ==
    {pl \in UNION {{<<i, k>> : k \in DOMAIN BinList(i)} :
                      i \in {j \in DOMAIN free_block_bin : free_block_bin[j] # nullptr}} :
        BinList(pl[1])[pl[2]] = b}

\* the blocks reachable from some bucket
Binned == UNION {{BinList(i)[k] : k \in DOMAIN BinList(i)} :
                    i \in {j \in DOMAIN free_block_bin : free_block_bin[j] # nullptr}}

\* ------------------------------------------------------------------ SpecBin
\* the heap after smalloc of each size of sizes in turn, the OS granting all
RECURSIVE Built(_, _)
Built(sizes, k) ==
    IF k = 0
        THEN [mem |-> [x \in {} |-> x], head |-> nullptr, mhead |-> nullptr,
              bins |-> [i \in 0 .. (BIN_SIZE - 1) |-> nullptr], brk |-> InitBrk,
              mapped |-> {}, fault |-> "none", data |-> {}, os |-> "none"]
    ELSE smalloc(Built(sizes, k - 1), sizes[k], [ok |-> TRUE, slot |-> MmapBase]).h

\* the payload of the k-th of the blocks allocated in turn with sizes
RECURSIVE PtrOf(_, _)
PtrOf(sizes, k) ==
    IF k = 1 THEN InitBrk + MetaSize
    ELSE PtrOf(sizes, k - 1) + GET_SIZE_WITH_ALIGNMENT(sizes[k - 1]) + MetaSize

\* the state after seven calls of smalloc; the caller keeps the four blocks
\* at the odd places for sfree
InitBin ==
    \E s1, s2, s3, s4 \in BinSizes :
        \E sizes \in {<<s1, SeparatorSize, s2, SeparatorSize, s3, SeparatorSize, s4>>} :
            /\ Holds(Built(sizes, 7))
            /\ live = {[ptr |-> PtrOf(sizes, k), size |-> sizes[k]] : k \in {1, 3, 5, 7}}
            /\ last = [op |-> "smalloc", p |-> nullptr, size |-> s4, ret |-> PtrOf(sizes, 7),
                       os |-> "ok", chained |-> FALSE]
            /\ nops = 0

\* remove_from_bin(b) for a block b that is linked in a bucket
RemoveBin(b) ==
    /\ fault = "none"
    /\ last.op # "remove_from_bin"
    /\ b \in Binned
    /\ nops' = nops + 1
    /\ Commit(remove_from_bin(Heap, b))
    /\ live' = live
    /\ last' = [op |-> "remove_from_bin", p |-> b, size |-> mem[b].size, ret |-> nullptr,
                os |-> "none", chained |-> FALSE]

\* SpecBin: the caller frees some of its four blocks, then remove_from_bin is
\* applied to one block of a bucket
NextBin ==
    \/ \E e \in live : last.op # "remove_from_bin" /\ Free(e, MaxOpsBin)
    \/ \E b \in DOMAIN mem : RemoveBin(b)

SpecBin == InitBin /\ [][NextBin]_vars

\* ------------------------------------------------- Level 2 (malloc_2.cpp)
\* The Level 2 allocator keeps one chain of blocks with four header fields and
\* has neither bins nor mappings; its state is mem, metadata_head and brk.
\* Payload bytes are not tracked at this level.
MAX_MALLOC_2_SIZE == 100000000

\* sizeof(malloc_metadata_t): size_t, bool (padded to 8), two pointers
MetaSize_2 == 32

Heap_2 == [mem |-> mem, head |-> metadata_head, brk |-> brk, fault |-> fault, os |-> "none"]

INIT_METADATA_2(h, metadata, size, is_free, next, prev) ==
    IF ~Ok(h) THEN h
    ELSE [h EXCEPT !.mem = [x \in DOMAIN h.mem \cup {metadata} |->
                               IF x = metadata
                                   THEN [size |-> size, is_free |-> is_free,
                                         next |-> next, prev |-> prev]
                                   ELSE h.mem[x]]]

\* the loop of get_free_metadata_block from block on
RECURSIVE FirstFit_2(_, _, _, _)
FirstFit_2(h, size, block, fuel) ==
    IF block = nullptr THEN nullptr
    ELSE IF fuel = 0 THEN HANG
    ELSE IF ~Has(h, block) THEN WILD
    ELSE IF h.mem[block].is_free /\ h.mem[block].size >= size THEN block
    ELSE FirstFit_2(h, size, h.mem[block].next, fuel - 1)

\* a search that does not look at is_free
get_any_metadata_block_2(h, size) ==
    IF {b \in DOMAIN h.mem : h.mem[b].size >= size} = {} THEN nullptr
    ELSE CHOOSE b \in DOMAIN h.mem :
             /\ h.mem[b].size >= size
             /\ \A c \in DOMAIN h.mem : h.mem[c].size >= size => b <= c

get_free_metadata_block_2(h, size) ==
    FirstFit_2(h, size, h.head, Fuel(h))

get_last_metadata_block_2(h) ==
    IF h.head = nullptr THEN nullptr ELSE LastWalk(h, h.head, Fuel(h))

\* smalloc: the first allocation; r is the result of sbrk
FirstBlock_2(r, size) ==
    IF r.ret = SBRK_FAIL THEN [h |-> r.h, ret |-> nullptr]
    ELSE [h |-> [INIT_METADATA_2(r.h, r.ret, size, FALSE, nullptr, nullptr)
                    EXCEPT !.head = r.ret],
          ret |-> r.ret + MetaSize_2]

\* smalloc: no matching block, a new one is created; r is the result of sbrk
\* and lastb the last block of the chain
NewBlock_2(r, lastb, size) ==
    IF r.ret = SBRK_FAIL THEN [h |-> r.h, ret |-> nullptr]
    ELSE IF lastb < 0 THEN [h |-> WalkFault(r.h, lastb), ret |-> nullptr]
    ELSE [h |-> INIT_METADATA_2(SetField(r.h, lastb, "next", r.ret),
                                r.ret, size, FALSE, nullptr, lastb),
          ret |-> r.ret + MetaSize_2]

\* smalloc once the chain is not empty; freed is the result of the search
Reuse_2(h, freed, size, os) ==
    IF freed < 0 THEN [h |-> WalkFault(h, freed), ret |-> nullptr]
    ELSE IF freed # nullptr
        THEN [h |-> SetField(h, freed, "is_free", FALSE), ret |-> freed + MetaSize_2]
    ELSE NewBlock_2(sbrk(h, size + MetaSize_2, os), get_last_metadata_block_2(h), size)

smalloc_2(h, size, os) ==
    IF ~Ok(h) THEN [h |-> h, ret |-> nullptr]
    ELSE IF size > MAX_MALLOC_2_SIZE \/ size = 0 THEN [h |-> h, ret |-> nullptr]
    ELSE IF h.head = nullptr THEN FirstBlock_2(sbrk(h, size + MetaSize_2, os), size)
    ELSE Reuse_2(h, get_free_metadata_block_2(h, size), size, os)

\* the argument smalloc receives for the size_t w
Requested_2(w) == IF SizeTSmall(w) THEN SizeTValue(w) ELSE MAX_MALLOC_2_SIZE + 1

\* scalloc: the memset writes payload bytes only
scalloc_2(h, num, size, os) ==
    smalloc_2(h, Requested_2(SizeTMul(num, size)), os)

sfree_2(h, p) ==
    IF p = nullptr THEN h ELSE SetField(h, p - MetaSize_2, "is_free", TRUE)

\* srealloc: the block is too small or oldp is null; res is the result of
\* smalloc; the memcpy writes payload bytes only
Moved_2(res, oldp) ==
    IF res.ret = nullptr THEN [h |-> res.h, ret |-> nullptr]
    ELSE IF oldp # nullptr THEN [h |-> sfree_2(res.h, oldp), ret |-> res.ret]
    ELSE res

srealloc_2(h, oldp, size, os) ==
    IF ~Ok(h) THEN [h |-> h, ret |-> nullptr]
    ELSE IF size > MAX_MALLOC_2_SIZE \/ size = 0 THEN [h |-> h, ret |-> nullptr]
    ELSE IF oldp # nullptr /\ ~Has(h, oldp - MetaSize_2)
        THEN [h |-> Fault(h, "wild_read"), ret |-> nullptr]
    ELSE IF oldp # nullptr /\ h.mem[oldp - MetaSize_2].size >= size
        THEN [h |-> SetField(h, oldp - MetaSize_2, "is_free", FALSE), ret |-> oldp]
    ELSE Moved_2(smalloc_2(h, size, os), oldp)

Commit_2(h) ==
    /\ mem' = h.mem
    /\ metadata_head' = h.head
    /\ brk' = h.brk
    /\ fault' = h.fault
    /\ UNCHANGED <<mmap_metadata_head, free_block_bin, mapped, data>>

\* the answer of the OS to sbrk
OsOutcomes_2 == {[ok |-> b, slot |-> MmapBase] : b \in BOOLEAN}

Malloc_2(n, os) ==
    /\ fault = "none"
    /\ nops < MaxOps_2
    /\ nops' = nops + 1
    /\ \E r \in {smalloc_2(Heap_2, n, os)} :
          /\ Commit_2(r.h)
          /\ live' = IF r.ret # nullptr THEN live \cup {[ptr |-> r.ret, size |-> n]} ELSE live
          /\ last' = [op |-> "smalloc", p |-> nullptr, size |-> n, ret |-> r.ret,
                      os |-> r.h.os, chained |-> FALSE]

Calloc_2(num, size, os) ==
    /\ fault = "none"
    /\ nops < MaxOps_2
    /\ nops' = nops + 1
    /\ \E r \in {scalloc_2(Heap_2, num, size, os)} :
          /\ Commit_2(r.h)
          /\ live' = IF r.ret # nullptr
                         THEN live \cup {[ptr |-> r.ret,
                                          size |-> Requested_2(SizeTMul(num, size))]}
                         ELSE live
          /\ last' = [op |-> "scalloc", p |-> nullptr,
                      size |-> Requested_2(SizeTMul(num, size)), ret |-> r.ret,
                      os |-> r.h.os, chained |-> FALSE]

Free_2(e) ==
    /\ fault = "none"
    /\ nops < MaxOps_2
    /\ nops' = nops + 1
    /\ Commit_2(sfree_2(Heap_2, e.ptr))
    /\ live' = live \ {e}
    /\ last' = [op |-> "sfree", p |-> e.ptr, size |-> e.size, ret |-> nullptr, os |-> "none",
                chained |-> FALSE]

Realloc_2(e, n, os) ==
    /\ fault = "none"
    /\ nops < MaxOps_2
    /\ nops' = nops + 1
    /\ \E r \in {srealloc_2(Heap_2, e.ptr, n, os)} :
          /\ Commit_2(r.h)
          /\ live' = IF r.ret # nullptr
                         THEN (live \ {e}) \cup {[ptr |-> r.ret, size |-> n]} ELSE live
          /\ last' = [op |-> "srealloc", p |-> e.ptr, size |-> n, ret |-> r.ret,
                      os |-> r.h.os, chained |-> FALSE]

ReallocNull_2(n, os) ==
    /\ fault = "none"
    /\ nops < MaxOps_2
    /\ nops' = nops + 1
    /\ \E r \in {srealloc_2(Heap_2, nullptr, n, os)} :
          /\ Commit_2(r.h)
          /\ live' = IF r.ret # nullptr THEN live \cup {[ptr |-> r.ret, size |-> n]} ELSE live
          /\ last' = [op |-> "srealloc", p |-> nullptr, size |-> n, ret |-> r.ret,
                      os |-> r.h.os, chained |-> FALSE]

Next_2 ==
    \/ \E n \in Sizes_2, os \in OsOutcomes_2 : Malloc_2(n, os)
    \/ \E a \in CallocArgs_2, os \in OsOutcomes_2 : Calloc_2(a[1], a[2], os)
    \/ \E e \in live : Free_2(e)
    \/ \E e \in live, n \in Sizes_2, os \in OsOutcomes_2 : Realloc_2(e, n, os)
    \/ \E n \in Sizes_2, os \in OsOutcomes_2 : ReallocNull_2(n, os)

Spec_2 == Init /\ [][Next_2]_vars

\* a public call returned normally in the step
Returned(op) == nops' = nops + 1 /\ last'.op = op /\ fault' = "none"

\* the payload bytes of two allocations of the caller overlap
Overlap(e1, e2) == e1.ptr < e2.ptr + e2.size /\ e2.ptr < e1.ptr + e1.size

\* ------------------------------------------------------------------- claims
\* C1: a successful smalloc or srealloc never returns a pointer the caller
\* still holds (other than the one being reallocated), and afterwards the
\* payload bytes of any two distinct live pointers do not overlap.
C1_NoLiveHandout ==
    [][\A op \in {"smalloc", "srealloc"} :
          (Returned(op) /\ last'.ret # nullptr) =>
              /\ last'.ret \notin {e.ptr : e \in {x \in live : x.ptr # last'.p}}
              /\ \A e1, e2 \in live' : e1.ptr # e2.ptr => ~Overlap(e1, e2)]_vars

\* C2: after every public call a block of the brk chain is reachable from
\* bucket floor(size / 1024), exactly once and from no other bucket, if and
\* only if it is free; used blocks and mapped blocks are in no bucket.
C2_BinsIffFree ==
    fault = "none" =>
        /\ \A b \in BrkBlocks :
              IF mem[b].is_free
                  THEN /\ Cardinality(BinPlaces(b)) = 1
                       /\ \A pl \in BinPlaces(b) : pl[1] = GET_BIN_ENTRY(mem[b].size)
                  ELSE BinPlaces(b) = {}
        /\ \A b \in MmapBlocks : BinPlaces(b) = {}

\* C3: after every public call no two neighbours of the brk chain are both free.
C3_NoAdjacentFree ==
    fault = "none" =>
        \A k \in DOMAIN BrkChain :
            (mem[BrkChain[k]].is_free /\ mem[BrkChain[k]].next # nullptr
             /\ mem[BrkChain[k]].next \in DOMAIN mem)
                => ~mem[mem[BrkChain[k]].next].is_free

\* C4: after every public call the brk chain is contiguous and sorted by
\* address: b.next, when there is one, is b + header + b.size and points back
\* to b, and metadata_head is the block with the lowest address.
C4_ChainContiguous ==
    fault = "none" =>
        /\ \A b \in BrkBlocks :
              mem[b].next # nullptr =>
                  /\ mem[b].next = b + MetaSize + mem[b].size
                  /\ mem[b].next \in DOMAIN mem
                  /\ mem[mem[b].next].prev = b
        /\ \A b \in BrkBlocks : metadata_head <= b

\* C5: after every public call the headers and payloads of the brk chain add
\* up to the bytes between the initial program break and the current one.
C5_ChainCoversBreak ==
    fault = "none" =>
        MetaSize * Len(BrkChain) + SumSize(BrkChain, Len(BrkChain)) = brk - InitBrk

\* a public call op was made in the step and the OS primitive it reached failed
OsFailed(op) == nops' = nops + 1 /\ last'.op = op /\ last'.os = "fail"

\* a public call op was made in the step with a size the allocator rejects
Rejected(op) ==
    nops' = nops + 1 /\ last'.op = op /\ (last'.size = 0 \/ last'.size > MAX_MALLOC_4_SIZE)

\* the call of the step returned null and left the allocator and the caller's
\* allocations as they were
NothingChanged ==
    last'.ret = nullptr /\ fault' = "none" /\ UNCHANGED heapvars /\ live' = live

\* C6: when sbrk or mmap fails during srealloc(p, size) with p live, srealloc
\* returns null and the state is unchanged: the block of p, its neighbours,
\* the brk chain and all bins are as before the call.
C6_ReallocFailureNoChange ==
    [][(OsFailed("srealloc") /\ last'.p # nullptr) => NothingChanged]_vars

\* C7: when sbrk or mmap fails during smalloc (large path, tail extension or
\* fresh growth), smalloc returns null and both chains, every header, all
\* bins and the program break are unchanged.
C7_AllocFailureNoChange ==
    [][OsFailed("smalloc") => NothingChanged]_vars

\* a failed tail extension: the request was small, the last block of the brk
\* chain is free, too small for the request, and heads its bucket
C7_FailedTailExtension ==
    /\ last.op = "smalloc" /\ last.os = "fail" /\ last.ret = nullptr
    /\ last.size < MIN_KB_BLOCK
    /\ \E b \in BrkBlocks :
          /\ mem[b].next = nullptr /\ mem[b].is_free
          /\ mem[b].size < GET_SIZE_WITH_ALIGNMENT(last.size)
          /\ free_block_bin[GET_BIN_ENTRY(mem[b].size)] = b

\* C8: smalloc(size) with size = 0 or size > MAX_MALLOC_4_SIZE returns null
\* and changes nothing: chains, bins, program break and the six counters.
C8_RejectedAllocNoChange ==
    [][Rejected("smalloc") => (NothingChanged /\ Counters' = Counters)]_vars

\* a rejected smalloc in a state with a free block and a used block
C8_RejectedWithBlocks ==
    /\ last.op = "smalloc" /\ last.ret = nullptr
    /\ (last.size = 0 \/ last.size > MAX_MALLOC_4_SIZE)
    /\ _num_free_blocks > 0 /\ _num_allocated_blocks > _num_free_blocks

\* C9: srealloc(p, size) with size = 0 or size > MAX_MALLOC_4_SIZE returns
\* null for p null or live and changes nothing; a live p is not freed.
C9_RejectedReallocNoChange ==
    [][Rejected("srealloc") => NothingChanged]_vars

\* a rejected srealloc of a live pointer whose block is still used
C9_RejectedLive ==
    /\ last.op = "srealloc" /\ last.ret = nullptr /\ last.p # nullptr
    /\ (last.size = 0 \/ last.size > MAX_MALLOC_4_SIZE)
    /\ \E e \in live : e.ptr = last.p
    /\ GET_METADATA_FROM_PTR(last.p) \in DOMAIN mem
    /\ ~mem[GET_METADATA_FROM_PTR(last.p)].is_free

\* C10: p = smalloc(n); sfree(p); q = smalloc(n) with p non-null and n below
\* the large threshold yields q = p.
C10_FreeThenAllocReuses ==
    [][(/\ last.op = "sfree" /\ last.chained /\ last.size < MIN_KB_BLOCK
        /\ nops' = nops + 1 /\ last'.op = "smalloc" /\ last'.size = last.size)
          => (fault' = "none" /\ last'.ret = last.p)]_vars

\* srealloc(p, k) returned in the step, for a pointer p whose header is
\* intact and whose block holds at least k bytes
ShrinkStep ==
    /\ Returned("srealloc") /\ last'.p # nullptr
    /\ GET_METADATA_FROM_PTR(last'.p) \in DOMAIN mem
    /\ 0 < last'.size /\ last'.size <= mem[GET_METADATA_FROM_PTR(last'.p)].size

ByteAt(D, M, x) ==
    IF \E d \in D : d.lo <= x /\ x < d.hi
        THEN LET d == CHOOSE r \in D : r.lo <= x /\ x < r.hi
             IN <<d.val, d.off + (x - d.lo)>>
    ELSE IF \E a \in DOMAIN M : a <= x /\ x < a + MetaSize
        THEN LET a == CHOOSE b \in DOMAIN M : b <= x /\ x < b + MetaSize
             IN <<<<M[a]>>, x - a>>
    ELSE <<<<>>, -1>>

\* the offsets below n from base at which a run or a header of D, M starts or
\* ends, and offset 0: between two of them ByteAt advances byte by byte
Marks(D, M, base, n) ==
    {0} \cup {i \in {d.lo - base : d \in D} \cup {d.hi - base : d \in D}
                    \cup {a - base : a \in DOMAIN M}
                    \cup {a + MetaSize - base : a \in DOMAIN M} : 0 <= i /\ i < n}

\* the n bytes at q after the step are the n bytes that were at p before it:
\* they agree wherever either side starts a new run or header
SameBytes(q, p, n) ==
    \A i \in Marks(data, mem, p, n) \cup Marks(data', mem', q, n) :
        ByteAt(data', mem', q + i) = ByteAt(data, mem, p + i)

\* srealloc(p, n) returned a block in the step, for a pointer p whose header
\* is intact and whose block holds fewer than n bytes
GrowStep ==
    /\ Returned("srealloc") /\ last'.p # nullptr /\ last'.ret # nullptr
    /\ GET_METADATA_FROM_PTR(last'.p) \in DOMAIN mem
    /\ GET_SIZE_WITH_ALIGNMENT(last'.size) > mem[GET_METADATA_FROM_PTR(last'.p)].size

ThreeWayStep ==
    /\ GrowStep
    /\ GET_METADATA_FROM_PTR(last'.p) \in BrkBlocks
    /\ LET b == mem[GET_METADATA_FROM_PTR(last'.p)]
           n == GET_SIZE_WITH_ALIGNMENT(last'.size)
       IN /\ b.prev \in DOMAIN mem /\ mem[b.prev].is_free
          /\ b.next \in DOMAIN mem /\ mem[b.next].is_free
          /\ mem[b.prev].size + MetaSize + b.size < n
          /\ b.size + MetaSize + mem[b.next].size < n
          /\ mem[b.prev].size + b.size + mem[b.next].size + 2 * MetaSize >= n

\* C13: when a live brk block b has a free predecessor a and a free successor
\* c, neither neighbour alone with b suffices and the three payloads plus the
\* two absorbed headers hold the aligned request, srealloc(b, size) returns
\* a's payload, b's former bytes are at offset 0 of it, and a, b, c are
\* replaced in the chain by one used block at a's header.
C13_ThreeWayAbsorb ==
    [][ThreeWayStep =>
        LET hdr == GET_METADATA_FROM_PTR(last'.p)
            a == mem[hdr].prev
            c == mem[hdr].next
        IN /\ last'.ret = GET_PTR_FROM_METADATA(a)
           /\ SameBytes(last'.ret, last'.p, mem[hdr].size)
           /\ a \in BrkBlocks' /\ ~mem'[a].is_free
           /\ hdr \notin BrkBlocks' /\ c \notin BrkBlocks']_vars

\* sfree(p) returned in the step for a used brk block p whose predecessor and
\* successor in the chain are both free
FreeBetweenFree ==
    /\ Returned("sfree")
    /\ GET_METADATA_FROM_PTR(last'.p) \in BrkBlocks
    /\ LET b == mem[GET_METADATA_FROM_PTR(last'.p)]
       IN /\ ~b.is_free
          /\ b.prev \in DOMAIN mem /\ mem[b.prev].is_free
          /\ b.next \in DOMAIN mem /\ mem[b.next].is_free

TailStep ==
    /\ Returned("smalloc") /\ last'.os # "fail"
    /\ last'.size > 0 /\ last'.size <= MAX_MALLOC_4_SIZE
    /\ GET_SIZE_WITH_ALIGNMENT(last'.size) < MIN_KB_BLOCK
    /\ \A b \in Binned : b \in DOMAIN mem /\ mem[b].size < GET_SIZE_WITH_ALIGNMENT(last'.size)
    /\ Len(BrkChain) > 0
    /\ BrkChain[Len(BrkChain)] \in DOMAIN mem
    /\ mem[BrkChain[Len(BrkChain)]].is_free

\* C15: when smalloc(size), aligned size below the large threshold, finds no
\* fitting block in the bins and the last block of the brk chain is free, it
\* returns that tail's payload, the break advances by aligned size minus the
\* tail's old size, the tail's size becomes the aligned size, the number of
\* blocks is unchanged and the tail is in no bin.
C15_TailExtension ==
    [][TailStep =>
        \A tail \in DOMAIN mem : tail = BrkChain[Len(BrkChain)] =>
           /\ last'.ret = GET_PTR_FROM_METADATA(tail)
           /\ brk' = brk + GET_SIZE_WITH_ALIGNMENT(last'.size) - mem[tail].size
           /\ mem'[tail].size = GET_SIZE_WITH_ALIGNMENT(last'.size)
           /\ Len(BrkChain') = Len(BrkChain) /\ Len(MmapChain') = Len(MmapChain)
           /\ BinPlaces(tail)' = {}]_vars

\* the brk chain with its headers, every bucket and the break are as before
BrkSideUnchanged ==
    /\ BrkChain' = BrkChain
    /\ \A b \in BrkBlocks : b \in DOMAIN mem => (b \in DOMAIN mem' /\ mem'[b] = mem[b])
    /\ free_block_bin' = free_block_bin
    /\ brk' = brk

\* smalloc returned a block in the step for an aligned size of at least
\* MIN_KB_BLOCK
LargeAllocStep ==
    /\ Returned("smalloc") /\ last'.ret # nullptr
    /\ GET_SIZE_WITH_ALIGNMENT(last'.size) >= MIN_KB_BLOCK

\* sfree returned in the step for a pointer whose block is in the mapped chain
LargeFreeStep ==
    /\ Returned("sfree")
    /\ GET_METADATA_FROM_PTR(last'.p) \in MmapBlocks

MmapPath(hdr) == mem[hdr].size >= MIN_KB_BLOCK

\* C17: blocks never migrate between chains: the mapped chain holds only
\* blocks obtained by mmap, the brk chain only blocks carved from the program
\* break, and sfree(p) / srealloc(p, .) take the mmap path if and only if p's
\* block is in the mapped chain.
C17_NoMigration ==
    fault = "none" =>
        /\ MmapBlocks \subseteq mapped
        /\ \A b \in BrkBlocks : InitBrk <= b /\ b + MetaSize <= brk
        /\ \A e \in live : GET_METADATA_FROM_PTR(e.ptr) \in DOMAIN mem =>
              (MmapPath(GET_METADATA_FROM_PTR(e.ptr))
                   <=> GET_METADATA_FROM_PTR(e.ptr) \in MmapBlocks)

\* the product of a and b as a number exceeds MAX_MALLOC_4_SIZE: a byte of
\* the unreduced product from the fifth on is set, or its low four bytes are
\* over the limit
ProductExceeds(a, b) ==
    \/ \E k \in 4 .. (2 * SizeTBytes - 1) : Carried(a, b, k) % ByteBase # 0
    \/ Carried(a, b, 3) % ByteBase >= 128
    \/ SizeTValue([k \in 0 .. 3 |-> Carried(a, b, k) % ByteBase]) > MAX_MALLOC_4_SIZE

\* C18: scalloc(num, size) returns null whenever the mathematical product
\* num * size exceeds MAX_MALLOC_4_SIZE, also when the product wraps around
\* the machine word to a small value; no block is allocated then.
C18_CallocOversizeIsNull ==
    [][(nops' = nops + 1 /\ last'.op = "scalloc" /\ ProductExceeds(last'.num, last'.elem))
          => NothingChanged]_vars

\* the value every byte has that holds neither caller data nor a header
ZeroByte == <<<<>>, -1>>

\* C19: after a successful scalloc(k, s) each of the first k * s bytes of the
\* returned payload is zero, also when the block is a recycled free block, a
\* split head or an extended tail that held caller data before.
C19_CallocZeroes ==
    [][(Returned("scalloc") /\ last'.ret # nullptr /\ ~ProductExceeds(last'.num, last'.elem))
          => \A i \in Marks(data', mem', last'.ret, last'.size) :
                 ByteAt(data', mem', last'.ret + i) = ZeroByte]_vars

\* the third call is a scalloc that returned the only block there is: the
\* block was allocated, filled by the caller and freed before
C19_RecycledAndZero ==
    /\ fault = "none" /\ nops = 3 /\ last.op = "scalloc"
    /\ last.ret = InitBrk + MetaSize
    /\ brk = InitBrk + MetaSize + 40
    /\ ByteAt(data, mem, last.ret) = ZeroByte

\* the initial break, every mapping base and the header size are multiples
\* of ADDRESS_SIZE
AlignedBases ==
    /\ InitBrk % ADDRESS_SIZE = 0
    /\ \A m \in MmapSlots : m % ADDRESS_SIZE = 0
    /\ MetaSize % ADDRESS_SIZE = 0

\* C20: if the initial program break, every mapping base and the header size
\* are multiples of ADDRESS_SIZE, every non-null pointer returned by smalloc,
\* scalloc and srealloc is a multiple of ADDRESS_SIZE.
C20_ReturnedAligned ==
    (AlignedBases /\ fault = "none" /\ last.op \in {"smalloc", "scalloc", "srealloc"}
        /\ last.ret # nullptr)
    => last.ret % ADDRESS_SIZE = 0

\* a request of 41 bytes was served from a block that is not the first of
\* the break, behind a block whose request was not a multiple of ADDRESS_SIZE
C20_BehindUnaligned ==
    /\ AlignedBases /\ fault = "none" /\ last.op \in {"smalloc", "srealloc"}
    /\ last.size = 41 /\ last.ret > InitBrk + MetaSize /\ last.ret < MmapBase
    /\ \E e \in live : e.ptr < last.ret /\ e.size % ADDRESS_SIZE # 0

\* the payload of the block at hdr lies in memory the allocator owns: in a
\* mapping that exists, or between the initial and the current break
Owned(hdr) ==
    IF hdr \in MmapSlots THEN hdr \in mapped
    ELSE InitBrk <= hdr /\ GET_PTR_FROM_METADATA(hdr) + mem[hdr].size <= brk

\* C21: every successful smalloc(size) and srealloc(p, size) returns the
\* payload of a block whose header records is_free == false and a size of at
\* least size rounded up to a multiple of ADDRESS_SIZE, and the whole payload
\* lies inside memory the allocator owns.
C21_ReturnedBlockUsable ==
    (fault = "none" /\ last.op \in {"smalloc", "srealloc"} /\ last.ret # nullptr)
    => /\ GET_METADATA_FROM_PTR(last.ret) \in DOMAIN mem
       /\ ~mem[GET_METADATA_FROM_PTR(last.ret)].is_free
       /\ mem[GET_METADATA_FROM_PTR(last.ret)].size >= GET_SIZE_WITH_ALIGNMENT(last.size)
       /\ Owned(GET_METADATA_FROM_PTR(last.ret))

\* C22: after every public call, within each bucket the blocks reached from
\* the head by bin_next are in non-decreasing order of size.
C22_BucketsSorted ==
    fault = "none" =>
        \A i \in DOMAIN free_block_bin :
            \A k \in 1 .. (Len(BinList(i)) - 1) :
                mem[BinList(i)[k]].size <= mem[BinList(i)[k + 1]].size

\* C23: after every public call the size field of every block of the brk
\* chain and of the mapped chain is a multiple of ADDRESS_SIZE, also of the
\* remainders of splits and of blocks grown by merges, tail extension or
\* srealloc.
C23_SizesAligned ==
    fault = "none" =>
        \A b \in BrkBlocks \cup MmapBlocks : mem[b].size % ADDRESS_SIZE = 0

\* a request that is no multiple of ADDRESS_SIZE was served by splitting a
\* block: the block it returned is followed by a free remainder
C23_SplitForUnaligned ==
    /\ fault = "none" /\ last.ret # nullptr /\ last.size % ADDRESS_SIZE # 0
    /\ GET_METADATA_FROM_PTR(last.ret) \in BrkBlocks
    /\ \E b \in BrkBlocks :
          /\ mem[b].is_free
          /\ mem[b].prev = GET_METADATA_FROM_PTR(last.ret)
          /\ b = last.ret + GET_SIZE_WITH_ALIGNMENT(last.size)

\* smalloc(size) was called in the step with an aligned size below the mmap
\* threshold while some free block of the brk chain held that many bytes
FitExistsStep ==
    /\ nops' = nops + 1 /\ last'.op = "smalloc"
    /\ last'.size > 0 /\ last'.size <= MAX_MALLOC_4_SIZE
    /\ GET_SIZE_WITH_ALIGNMENT(last'.size) < MIN_KB_BLOCK
    /\ \E b \in BrkBlocks :
          mem[b].is_free /\ mem[b].size >= GET_SIZE_WITH_ALIGNMENT(last'.size)

\* C24: smalloc(size), aligned size below the large threshold, asks the OS
\* for more break only when no recycled block fits: whenever some free block
\* of the brk chain has size >= aligned size, smalloc succeeds without calling
\* sbrk and the break is unchanged.
C24_NoSbrkWhenFitExists ==
    [][FitExistsStep =>
          (fault' = "none" /\ last'.ret # nullptr /\ last'.os = "none" /\ brk' = brk)]_vars

\* smalloc(size) returned a block in the step without reaching sbrk or mmap:
\* the request was served by get_free_metadata_block
FromBinsStep ==
    /\ Returned("smalloc") /\ last'.ret # nullptr /\ last'.os = "none"
    /\ GET_SIZE_WITH_ALIGNMENT(last'.size) < MIN_KB_BLOCK

\* C25: when smalloc(size) is satisfied from the bins, the winner is a block
\* linked in a bucket, and its size is the minimum over all free brk blocks
\* whose size is >= the aligned request.
C25_BinBestFit ==
    [][FromBinsStep =>
          /\ GET_METADATA_FROM_PTR(last'.ret) \in Binned
          /\ GET_METADATA_FROM_PTR(last'.ret) \in DOMAIN mem
          /\ \A b \in BrkBlocks :
                (mem[b].is_free /\ mem[b].size >= GET_SIZE_WITH_ALIGNMENT(last'.size))
                    => mem[GET_METADATA_FROM_PTR(last'.ret)].size <= mem[b].size]_vars

BucketsWellFormed ==
    \A i \in DOMAIN free_block_bin :
        /\ Len(BinList(i)) > 0 => mem[BinList(i)[1]].bin_prev = nullptr
        /\ \A k \in 1 .. (Len(BinList(i)) - 1) :
               mem[BinList(i)[k + 1]].bin_prev = BinList(i)[k]

\* C27: remove_from_bin(b), for a block b at the head, in the middle or at the
\* tail of a bucket of any length, removes exactly b: every other block of
\* the bucket stays reachable from the head in the same order, and what
\* remains is a well-formed doubly linked list.
C27_RemoveExactlyOne ==
    [][(nops' = nops + 1 /\ last'.op = "remove_from_bin" /\ BucketsWellFormed) =>
          /\ fault' = "none"
          /\ BucketsWellFormed'
          /\ \A b \in DOMAIN mem : b = last'.p =>
                \A i \in DOMAIN free_block_bin :
                    BinList(i)' = SelectSeq(BinList(i), LAMBDA x : x # b)]_vars

\* smalloc extended the free last block of the brk chain in the step: sbrk
\* was granted and the block returned is that tail, which was linked in a
\* bucket of well-formed buckets
TailUnlinkStep ==
    /\ Returned("smalloc") /\ last'.os = "ok"
    /\ Len(BrkChain) > 0
    /\ mem[BrkChain[Len(BrkChain)]].is_free
    /\ last'.ret = GET_PTR_FROM_METADATA(BrkChain[Len(BrkChain)])
    /\ BrkChain[Len(BrkChain)] \in Binned
    /\ BucketsWellFormed

\* C28: the hand-written unlink of smalloc's tail extension leaves the bins
\* as a correct doubly linked removal of the tail would: the tail is absent
\* from its bucket, every other block of the bucket is still reachable in the
\* same order, the new head's bin_prev is null, and the tail's own bin_next
\* and bin_prev reference no binned block.
C28_TailUnlinkIsRemoval ==
    [][TailUnlinkStep =>
          \A tail \in DOMAIN mem : tail = BrkChain[Len(BrkChain)] =>
             /\ \A i \in DOMAIN free_block_bin :
                    BinList(i)' = SelectSeq(BinList(i), LAMBDA x : x # tail)
             /\ BucketsWellFormed'
             /\ mem'[tail].bin_next \notin Binned'
             /\ mem'[tail].bin_prev \notin Binned']_vars

\* srealloc(p, size) returned in the step for a used brk block p, below the
\* mmap threshold, that already holds the aligned size
InPlaceStep ==
    /\ Returned("srealloc") /\ last'.p # nullptr /\ last'.size > 0
    /\ GET_METADATA_FROM_PTR(last'.p) \in BrkBlocks
    /\ ~mem[GET_METADATA_FROM_PTR(last'.p)].is_free
    /\ mem[GET_METADATA_FROM_PTR(last'.p)].size < MIN_KB_BLOCK
    /\ mem[GET_METADATA_FROM_PTR(last'.p)].size >= GET_SIZE_WITH_ALIGNMENT(last'.size)

\* the buckets from which block b is reachable
BucketsOf(b) == {pl[1] : pl \in BinPlaces(b)}

\* C29: srealloc(p, size) on a live brk block with old.size >= size changes
\* the bin membership of no block other than the remainder it creates and
\* the successor the remainder is merged with: every other free block stays
\* in its bucket, and the bucket of old.size keeps all its members.
C29_InPlaceLeavesBins ==
    [][InPlaceStep =>
          \A hdr \in DOMAIN mem : hdr = GET_METADATA_FROM_PTR(last'.p) =>
             /\ \A b \in Binned \ {mem[hdr].next} : BucketsOf(b)' = BucketsOf(b)
             /\ \A b \in Binned' \ Binned :
                    b = last'.p + GET_SIZE_WITH_ALIGNMENT(last'.size)]_vars

\* C30: in every reachable state every block of the brk chain has a payload
\* size below MIN_KB_BLOCK, so every bucket index GET_BIN_ENTRY(size) that
\* insert_block_to_bin, remove_from_bin and the tail-extension unlink compute
\* lies in 0 .. BIN_SIZE - 1, also after merges and after srealloc grows a
\* block.
C30_BrkBlocksBelowThreshold ==
    fault = "none" =>
        \A b \in BrkBlocks :
            /\ mem[b].size < MIN_KB_BLOCK
            /\ GET_BIN_ENTRY(mem[b].size) \in DOMAIN free_block_bin

\* C31: the program break never decreases: in every step (smalloc's tail
\* extension and fresh growth, srealloc's tail branch with or without an
\* absorbed predecessor, and every other call) the break after the step is at
\* least the break before it, that is, every increment handed to sbrk is
\* non-negative.
C31_BreakNeverDecreases ==
    [][brk' >= brk]_vars

\* the list that starts at block list and is linked by field visits no header
\* twice
Acyclic(list, field) ==
    LET walk == Follow(list, field, Cardinality(DOMAIN mem) + 1)
    IN \A j, k \in DOMAIN walk : walk[j] = walk[k] => j = k

\* C32: every public call terminates: no traversal of insert_block_to_bin,
\* get_free_metadata_block, get_last_metadata_block or remove_from_list runs
\* without end, and in every reachable state the next-chain of the brk chain
\* and of the mapped chain and the bin_next chain of every bucket are finite
\* and acyclic.
C32_CallsTerminate ==
    /\ fault # "hang"
    /\ fault = "none" =>
           /\ Acyclic(metadata_head, "next")
           /\ Acyclic(mmap_metadata_head, "next")
           /\ \A i \in DOMAIN free_block_bin : Acyclic(free_block_bin[i], "bin_next")

\* sfree(p) returned in the step for a used block p of the brk chain
FreeBrkStep ==
    /\ Returned("sfree")
    /\ GET_METADATA_FROM_PTR(last'.p) \in BrkBlocks
    /\ ~mem[GET_METADATA_FROM_PTR(last'.p)].is_free
    /\ mem[GET_METADATA_FROM_PTR(last'.p)].size < MIN_KB_BLOCK

\* the number of chain neighbours of block b that are free: the merges that
\* sfree performs on b
FreeNeighbours(b) ==
    Cardinality({n \in {mem[b].prev, mem[b].next} \ {nullptr} :
                    n \in DOMAIN mem /\ mem[n].is_free})

\* the sum of the sizes of the blocks of set S
RECURSIVE SizeOfAll(_)
SizeOfAll(S) ==
    IF S = {} THEN 0
    ELSE LET b == CHOOSE x \in S : TRUE IN mem[b].size + SizeOfAll(S \ {b})

\* C33: freeing a live brk block leaves _num_allocated_bytes() +
\* _num_meta_data_bytes() unchanged; with m the number of merges it performs
\* (one per free chain neighbour) _num_allocated_blocks() drops by m and
\* _num_allocated_bytes() rises by m header sizes; and afterwards
\* _num_free_bytes() is the sum of the sizes of the blocks linked in the bins.
C33_FreeConservesCounters ==
    [][FreeBrkStep =>
        \A hdr \in DOMAIN mem : hdr = GET_METADATA_FROM_PTR(last'.p) =>
           /\ _num_allocated_bytes' + _num_meta_data_bytes'
                  = _num_allocated_bytes + _num_meta_data_bytes
           /\ _num_allocated_blocks' = _num_allocated_blocks - FreeNeighbours(hdr)
           /\ _num_allocated_bytes' = _num_allocated_bytes + FreeNeighbours(hdr) * MetaSize
           /\ _num_free_bytes' = SizeOfAll(Binned)']_vars

\* the bytes spanned by the brk chain: payloads and headers
ChainSpan == SumSize(BrkChain, Len(BrkChain)) + MetaSize * Len(BrkChain)

\* srealloc(p, size) returned in the step for a used brk block p smaller than
\* the aligned size, whose predecessor is not free or too small and whose
\* successor is free and large enough together with p
RightAbsorbStep ==
    /\ Returned("srealloc")
    /\ GET_METADATA_FROM_PTR(last'.p) \in BrkBlocks
    /\ LET old == mem[GET_METADATA_FROM_PTR(last'.p)]
           size == GET_SIZE_WITH_ALIGNMENT(last'.size)
       IN /\ ~old.is_free
          /\ last'.size > 0 /\ last'.size <= MAX_MALLOC_4_SIZE
          /\ old.size < size /\ old.size < MIN_KB_BLOCK
          /\ \/ old.prev = nullptr
             \/ old.prev \in DOMAIN mem /\ (~mem[old.prev].is_free
                                             \/ mem[old.prev].size + old.size < size)
          /\ old.next \in DOMAIN mem
          /\ mem[old.next].is_free
          /\ mem[old.next].size + old.size >= size

C35_ReallocNullIsAlloc ==
    [][(nops' = nops + 1 /\ last'.op = "srealloc" /\ last'.p = nullptr) =>
        \A n \in Sizes \cup SizesWide : n = last'.size =>
           \E os \in OsOutcomes :
              /\ last'.ret = smalloc(Heap, n, os).ret
              /\ last'.os = smalloc(Heap, n, os).h.os
              /\ Commit(smalloc(Heap, n, os).h)]_vars

\* srealloc(nullptr, size) has just handed out a recycled block: it returned a
\* pointer without a call to the OS
C35_NullServedFromBin ==
    /\ fault = "none" /\ last.op = "srealloc" /\ last.p = nullptr
    /\ last.ret # nullptr /\ last.os = "none"
    /\ GET_METADATA_FROM_PTR(last.ret) \in BrkBlocks

\* the free blocks of the chain that hold at least size bytes
Fits_2(size) == {b \in BrkBlocks : mem[b].is_free /\ mem[b].size >= size}

\* C36 (Level 2): a smalloc(size) with an accepted size returns the
\* lowest-address free block of the chain with at least size bytes, marks it
\* used and leaves its size, the chain and the break as they were; when there
\* is no such block it either fails without a change or moves the break by
\* size plus one header and appends one block of size bytes, placed at the
\* old break, at the chain tail.  In every step of every call the chain has
\* at least as many blocks as before.
C36_Level2FirstFit ==
    [][/\ Len(BrkChain') >= Len(BrkChain)
       /\ (Returned("smalloc") /\ last'.size > 0 /\ last'.size <= MAX_MALLOC_2_SIZE) =>
              \A n \in Sizes_2 : n = last'.size =>
                 IF Fits_2(n) # {}
                     THEN \A b \in Fits_2(n) : (\A c \in Fits_2(n) : b <= c) =>
                             /\ last'.ret = b + MetaSize_2
                             /\ ~mem'[b].is_free
                             /\ mem'[b].size = mem[b].size
                             /\ BrkChain' = BrkChain
                             /\ brk' = brk
                     ELSE \/ last'.ret = nullptr /\ brk' = brk /\ BrkChain' = BrkChain
                                                 /\ mem' = mem
                          \/ /\ last'.ret = brk + MetaSize_2
                             /\ brk' = brk + n + MetaSize_2
                             /\ BrkChain' = Append(BrkChain, brk)
                             /\ mem'[brk].size = n /\ ~mem'[brk].is_free]_vars

\* smalloc has just handed out, whole, a free block larger than the request
\* although a free block at a higher address would have fitted as well
C36_LowestOfTwoFits ==
    /\ fault = "none" /\ last.op = "smalloc" /\ last.ret # nullptr /\ last.os = "none"
    /\ last.ret - MetaSize_2 \in BrkBlocks
    /\ mem[last.ret - MetaSize_2].size > last.size
    /\ \E c \in BrkBlocks :
          c > last.ret /\ mem[c].is_free /\ mem[c].size >= last.size

====
